---------------------------- MODULE Spec2Model ----------------------------
(***************************************************************************)
(* Model of inquire's path_select prompt core                               *)
(* (src/inquire/src/prompts/path_select/mod.rs): PathSelectionMode,         *)
(* PathEntry (equality, hashing, Display, TryFrom<&Path>), is_selectable,   *)
(* DEFAULT_PATH_FORMATTER, DEFAULT_FILTER and is_path_hidden_file.          *)
(*                                                                         *)
(* Text.  An OS string (OsStr, Path, PathBuf) is a sequence of units; a     *)
(* unit is one character, written as a TLA+ string: "a", "A", ".", "/",     *)
(* "U+00C9" (E acute, upper case), "U+00E9" (e acute, lower case),          *)
(* "U+FFFD" (the replacement character) and "0xFF", a byte that is not      *)
(* valid UTF-8 (unix file names are arbitrary bytes).  A str/String is a    *)
(* sequence of units without "0xFF".  Path syntax is the unix one.          *)
(***************************************************************************)
EXTENDS Naturals, Sequences, FiniteSets, TLC

VARIABLES
    fs,        \* the filesystem the process sees: name in "/" -> node
    cfg_unix,  \* cfg!(unix) of the build
    prev,      \* the outcome of the PathEntry::try_from before the last one
    cur,       \* the outcome of the last PathEntry::try_from, with its argument
    entry,     \* the PathEntry handed to is_selectable
    mode,      \* the PathSelectionMode handed to is_selectable
    path,      \* the path handed to DEFAULT_FILTER / is_path_hidden_file
    typed,     \* the typed text handed to DEFAULT_FILTER
    answers,   \* the ListOption<PathEntry> slice handed to the formatter
    out        \* what the last operation returned

vars == <<fs, cfg_unix, prev, cur, entry, mode, path, typed, answers, out>>

(***************************************************************************)
(* Bounds of the model.                                                     *)
(***************************************************************************)
MaxPathLen == 4    \* longest path text DEFAULT_FILTER / is_path_hidden_file get
MaxTextLen == 2    \* longest typed filter text
MaxSelPathLen == 3 \* longest path text of an entry given to is_selectable
MaxExtLen == 1     \* longest extension of a File(Some(ext)) mode
MaxModes == 2      \* longest list of a Multiple(modes) mode
MaxAnswers == 3    \* longest slice of selected options
MaxIndex == 1      \* largest ListOption index
MaxHops == 4       \* symbolic links followed in one lookup before ELOOP

(***************************************************************************)
(* Strings.                                                                 *)
(***************************************************************************)
StringsOver(alphabet, n) == UNION {[1..k -> alphabet] : k \in 0..n}

None == [some |-> FALSE]
Some(v) == [some |-> TRUE, val |-> v]

\* Option<&OsStr>::unwrap_or_default / Option<&str>::unwrap_or_default
unwrap_or_default(o) == IF o.some THEN o.val ELSE <<>>

\* char::to_lowercase (Unicode): the lower-case form of one character
lower_char(c) ==
    CASE c = "A" -> <<"a">>
      [] c = "U+00C9" -> <<"U+00E9">>
      [] OTHER -> <<c>>

RECURSIVE to_lowercase(_)
\* str::to_lowercase
to_lowercase(s) ==
    IF s = <<>> THEN <<>> ELSE lower_char(Head(s)) \o to_lowercase(Tail(s))

\* u8::to_ascii_lowercase, on the units of the text
ascii_lower(c) == IF c = "A" THEN "a" ELSE c

\* str::eq_ignore_ascii_case
eq_ignore_ascii_case(s, t) ==
    /\ Len(s) = Len(t)
    /\ \A i \in 1..Len(s) : ascii_lower(s[i]) = ascii_lower(t[i])

\* OsStr::to_string_lossy: invalid UTF-8 becomes U+FFFD
to_string_lossy(s) == [i \in 1..Len(s) |-> IF s[i] = "0xFF" THEN "U+FFFD" ELSE s[i]]

\* OsStr::to_str: None unless the whole string is valid UTF-8
to_str(s) == IF \E i \in 1..Len(s) : s[i] = "0xFF" THEN None ELSE Some(s)

\* str::starts_with
starts_with(s, t) == Len(t) <= Len(s) /\ SubSeq(s, 1, Len(t)) = t

RECURSIVE contains(_, _)
\* str::contains: scan s for t from the left
contains(s, t) ==
    IF starts_with(s, t) THEN TRUE
    ELSE IF s = <<>> THEN FALSE
    ELSE contains(Tail(s), t)

(***************************************************************************)
(* std::path on unix: components, file_name, extension, PathBuf equality.   *)
(***************************************************************************)
RECURSIVE Split(_)
\* the pieces of a path text between its "/" separators
Split(p) ==
    IF p = <<>> THEN << <<>> >>
    ELSE LET r == Split(Tail(p))
         IN  IF Head(p) = "/" THEN << <<>> >> \o r
             ELSE << <<Head(p)>> \o Head(r) >> \o Tail(r)

has_root(p) == p # <<>> /\ p[1] = "/"

Component(tag, name) == [tag |-> tag, name |-> name]

\* Path::components: RootDir for a leading "/", CurDir only for a leading "."
\* of a relative path, ParentDir for "..", Normal for a name; empty pieces and
\* every other "." are skipped.
components(p) ==
    LET pieces == Split(p)
        keep(i) == /\ pieces[i] # <<>>
                   /\ (pieces[i] = <<".">> => (i = 1 /\ ~has_root(p)))
        comp(i) == CASE pieces[i] = <<".">> -> Component("CurDir", <<>>)
                     [] pieces[i] = <<".", ".">> -> Component("ParentDir", <<>>)
                     [] OTHER -> Component("Normal", pieces[i])
        RECURSIVE walk(_)
        walk(i) == IF i > Len(pieces) THEN <<>>
                   ELSE IF keep(i) THEN <<comp(i)>> \o walk(i + 1)
                   ELSE walk(i + 1)
    IN  (IF has_root(p) THEN <<Component("RootDir", <<>>)>> ELSE <<>>) \o walk(1)

\* Path::file_name: the last component when it is a Normal one
file_name(p) ==
    LET c == components(p)
    IN  IF c # <<>> /\ c[Len(c)].tag = "Normal" THEN Some(c[Len(c)].name) ELSE None

\* std::path::rsplit_file_at_dot then before.and(after), as Path::extension does
extension(p) ==
    LET f == file_name(p)
    IN  IF ~f.some THEN None
        ELSE LET name == f.val
                 dots == {i \in 1..Len(name) : name[i] = "."}
                 last == CHOOSE i \in dots : \A j \in dots : j <= i
             IN  IF dots = {} THEN None
                 ELSE IF last = 1 THEN None
                 ELSE Some(SubSeq(name, last + 1, Len(name)))

\* PathBuf == PathBuf compares the components
path_eq(p, q) == components(p) = components(q)


(***************************************************************************)
(* The filesystem.  "/" is a searchable directory and the working           *)
(* directory; each name of Names is absent from it or is a regular file, an *)
(* (empty) directory, a directory without search permission, something else *)
(* (a device node, a fifo) or a symbolic link with a target text.           *)
(***************************************************************************)
Names == {<<"a">>, <<"b">>, <<"c">>}

PlainKinds == {"none", "file", "dir", "nodir", "other"}

Targets == {<<"/">> \o n : n \in Names} \cup {<<"/", "c", "/", ".">>}

Nodes == {[kind |-> k, target |-> <<>>] : k \in PlainKinds}
         \cup {[kind |-> "link", target |-> t] : t \in Targets}

FSStates == [Names -> Nodes]

Root == <<>>

IoOk(loc) == [ok |-> TRUE, loc |-> loc]
IoErr(e) == [ok |-> FALSE, err |-> e]

RECURSIVE Walk(_, _, _, _, _)
\* Path resolution of the operating system: look the pieces up one after the
\* other from `loc`, following a symbolic link unless it is the last piece of
\* a lookup that does not follow (lstat).
Walk(f, loc, pieces, hops, follow) ==
    IF pieces = <<>> THEN IoOk(loc)
    ELSE LET piece == Head(pieces)
             rest == Tail(pieces)
             here == IF loc = Root THEN "dir" ELSE f[loc[1]].kind
         IN  IF here \notin {"dir", "nodir"} THEN IoErr("NotADirectory")
             ELSE IF piece = <<>> THEN Walk(f, loc, rest, hops, follow)
             ELSE IF here = "nodir" THEN IoErr("PermissionDenied")
             ELSE IF piece = <<".">> THEN Walk(f, loc, rest, hops, follow)
             ELSE IF piece = <<".", ".">> THEN Walk(f, Root, rest, hops, follow)
             ELSE IF loc # Root THEN IoErr("NotFound")
             ELSE IF piece \notin Names THEN IoErr("NotFound")
             ELSE IF f[piece].kind = "none" THEN IoErr("NotFound")
             ELSE IF f[piece].kind = "link" /\ (rest # <<>> \/ follow)
                  THEN IF hops = 0 THEN IoErr("FilesystemLoop")
                       ELSE IF f[piece].target = <<>> THEN IoErr("NotFound")
                       ELSE Walk(f, Root, Split(f[piece].target) \o rest,
                                 hops - 1, follow)
             ELSE Walk(f, <<piece>>, rest, hops, follow)

Lookup(f, p, follow) ==
    IF p = <<>> THEN IoErr("NotFound") ELSE Walk(f, Root, Split(p), MaxHops, follow)

KindAt(f, loc) ==
    IF loc = Root THEN "dir"
    ELSE IF f[loc[1]].kind = "nodir" THEN "dir"
    ELSE f[loc[1]].kind

\* Path::metadata (stat): follows symbolic links
metadata(f, p) ==
    LET r == Lookup(f, p, TRUE)
    IN  IF r.ok THEN [ok |-> TRUE, file_type |-> KindAt(f, r.loc)] ELSE r

\* fs::symlink_metadata (lstat): does not follow a final symbolic link
symlink_metadata(f, p) ==
    LET r == Lookup(f, p, FALSE)
    IN  IF r.ok THEN [ok |-> TRUE, file_type |-> KindAt(f, r.loc)] ELSE r

\* Path::is_symlink: symlink_metadata(..).map(|m| m.is_symlink()).unwrap_or(false)
is_symlink(f, p) ==
    LET r == symlink_metadata(f, p) IN IF r.ok THEN r.file_type = "link" ELSE FALSE

\* fs_err::canonicalize (realpath): the absolute path of what the lookup reaches
canonicalize(f, p) ==
    LET r == Lookup(f, p, TRUE)
    IN  IF r.ok
        THEN [ok |-> TRUE, val |-> IF r.loc = Root THEN <<"/">> ELSE <<"/">> \o r.loc[1]]
        ELSE r

(***************************************************************************)
(* PathEntry.                                                               *)
(***************************************************************************)
PathEntry(p, file_type, symlink_path_opt) ==
    [path |-> p, file_type |-> file_type, symlink_path_opt |-> symlink_path_opt]

\* fs::FileType::is_dir / is_file, reached through Deref
is_dir(self) == self.file_type = "dir"
is_file(self) == self.file_type = "file"

\* impl PartialEq for PathEntry
eq(self, other) == path_eq(self.path, other.path)

\* #[derive(Hash)]: what the entry feeds to the hasher, field after field; a
\* Path feeds its components, an Option its discriminant and then its value.
hash(self) ==
    << components(self.path),
       self.file_type,
       IF self.symlink_path_opt.some
       THEN <<"Some", components(self.symlink_path_opt.val)>>
       ELSE <<"None">> >>

ARROW == <<" ", "-", ">", " ">>
DIRPREFIX == <<"(", "d", "i", "r", ")", " ">>

\* fmt with the directory test made before the symbolic-link test
fmt_dir_first(self) ==
    LET p == to_string_lossy(self.path)
    IN  IF is_dir(self) THEN DIRPREFIX \o p
        ELSE IF self.symlink_path_opt.some
        THEN to_string_lossy(self.symlink_path_opt.val) \o ARROW \o p
        ELSE p

\* impl fmt::Display for PathEntry
fmt(self) ==
    LET p == to_string_lossy(self.path)
    IN  IF self.symlink_path_opt.some
        THEN to_string_lossy(self.symlink_path_opt.val) \o ARROW \o p
        ELSE IF is_dir(self) THEN DIRPREFIX \o p
        ELSE p

Ok(v) == [ok |-> TRUE, val |-> v]
Err(e) == [ok |-> FALSE, err |-> e]

\* try_from that keeps the path of a symbolic link as given
try_from_no_canonicalize(f, value) ==
    LET target_metadata == metadata(f, value)
    IN  IF ~target_metadata.ok THEN Err(target_metadata.err)
        ELSE Ok(PathEntry(value, target_metadata.file_type,
                          IF is_symlink(f, value) THEN Some(value) ELSE None))

\* try_from that answers a failed lookup with a default entry
try_from_substitute(f, value) ==
    LET target_metadata == metadata(f, value)
    IN  IF ~target_metadata.ok THEN Ok(PathEntry(value, "other", None))
        ELSE IF is_symlink(f, value)
        THEN Ok(PathEntry(canonicalize(f, value).val, target_metadata.file_type,
                          Some(value)))
        ELSE Ok(PathEntry(value, target_metadata.file_type, None))

\* try_from that takes the file type from symlink_metadata
try_from_lstat(f, value) ==
    LET link_metadata == symlink_metadata(f, value)
        c == canonicalize(f, value)
    IN  IF ~link_metadata.ok THEN Err(link_metadata.err)
        ELSE IF ~c.ok THEN Err(c.err)
        ELSE IF is_symlink(f, value)
        THEN Ok(PathEntry(c.val, link_metadata.file_type, Some(value)))
        ELSE Ok(PathEntry(value, link_metadata.file_type, None))

\* impl TryFrom<&Path> for PathEntry
try_from(f, value) ==
    LET is_sym == is_symlink(f, value)
        target_metadata == metadata(f, value)
    IN  IF ~target_metadata.ok THEN Err(target_metadata.err)
        ELSE IF is_sym
        THEN LET c == canonicalize(f, value)
             IN  IF ~c.ok THEN Err(c.err)
                 ELSE Ok(PathEntry(c.val, target_metadata.file_type, Some(value)))
        ELSE Ok(PathEntry(value, target_metadata.file_type, None))

(***************************************************************************)
(* PathSelectionMode and PathEntry::is_selectable.                          *)
(***************************************************************************)
Directory == [tag |-> "Directory"]
File(ext_opt) == [tag |-> "File", ext |-> ext_opt]
Multiple(modes) == [tag |-> "Multiple", modes |-> modes]

RECURSIVE is_selectable_all(_, _)
\* is_selectable with Iterator::all in place of Iterator::any
is_selectable_all(self, selection_mode) ==
    LET file_ext_opt == extension(self.path)
    IN  IF selection_mode.tag = "Directory" /\ is_dir(self) THEN TRUE
        ELSE IF selection_mode.tag = "File" /\ is_file(self)
        THEN IF ~selection_mode.ext.some THEN TRUE
             ELSE IF file_ext_opt.some
             THEN eq_ignore_ascii_case(to_string_lossy(file_ext_opt.val),
                                       selection_mode.ext.val)
             ELSE FALSE
        ELSE IF selection_mode.tag = "Multiple"
        THEN \A i \in 1..Len(selection_mode.modes) :
                 is_selectable_all(self, selection_mode.modes[i])
        ELSE FALSE

RECURSIVE is_selectable_case_sensitive(_, _)
\* is_selectable comparing the extension with == in place of eq_ignore_ascii_case
is_selectable_case_sensitive(self, selection_mode) ==
    LET file_ext_opt == extension(self.path)
    IN  IF selection_mode.tag = "Directory" /\ is_dir(self) THEN TRUE
        ELSE IF selection_mode.tag = "File" /\ is_file(self)
        THEN IF ~selection_mode.ext.some THEN TRUE
             ELSE IF file_ext_opt.some
             THEN to_string_lossy(file_ext_opt.val) = selection_mode.ext.val
             ELSE FALSE
        ELSE IF selection_mode.tag = "Multiple"
        THEN \E i \in 1..Len(selection_mode.modes) :
                 is_selectable_case_sensitive(self, selection_mode.modes[i])
        ELSE FALSE

RECURSIVE is_selectable(_, _)
\* PathEntry::is_selectable: the match on (selection_mode, is_dir, is_file)
is_selectable(self, selection_mode) ==
    LET file_ext_opt == extension(self.path)
    IN  IF selection_mode.tag = "Directory" /\ is_dir(self) THEN TRUE
        ELSE IF selection_mode.tag = "File" /\ is_file(self)
        THEN IF ~selection_mode.ext.some THEN TRUE
             ELSE IF file_ext_opt.some
             THEN eq_ignore_ascii_case(to_string_lossy(file_ext_opt.val),
                                       selection_mode.ext.val)
             ELSE FALSE
        ELSE IF selection_mode.tag = "Multiple"
        THEN \E i \in 1..Len(selection_mode.modes) :
                 is_selectable(self, selection_mode.modes[i])
        ELSE FALSE

(***************************************************************************)
(* PathSelect: the default formatter, the default filter, hidden files.     *)
(***************************************************************************)
ListOption(index, value) == [index |-> index, value |-> value]

\* PathSelectPrompt::get_path_string: the plain text of the value's path
get_path_string(value) == to_string_lossy(value.path)

SEPARATOR == <<",", " ">>

RECURSIVE join(_, _)
\* [String]::join
join(strs, sep) ==
    IF strs = <<>> THEN <<>>
    ELSE IF Len(strs) = 1 THEN strs[1]
    ELSE strs[1] \o sep \o join(Tail(strs), sep)

\* DEFAULT_PATH_FORMATTER walking the slice from its end
DEFAULT_PATH_FORMATTER_reversed(ans) ==
    join([i \in 1..Len(ans) |-> get_path_string(ans[Len(ans) + 1 - i].value)], SEPARATOR)

\* PathSelect::DEFAULT_PATH_FORMATTER (DEFAULT_FORMATTER forwards to it)
DEFAULT_PATH_FORMATTER(ans) ==
    join([i \in 1..Len(ans) |-> get_path_string(ans[i].value)], SEPARATOR)

\* DEFAULT_FILTER matching the whole path in place of its file_name
DEFAULT_FILTER_whole_path(filter, as_ref_path) ==
    LET lowered == to_lowercase(filter)
    IN  contains(to_lowercase(to_string_lossy(as_ref_path)), lowered)

\* PathSelect::DEFAULT_FILTER; its string-value and index arguments are unused
DEFAULT_FILTER(filter, as_ref_path) ==
    LET lowered == to_lowercase(filter)
    IN  contains(
            to_lowercase(to_string_lossy(unwrap_or_default(file_name(as_ref_path)))),
            lowered)

\* PathSelect::is_path_hidden_file
is_path_hidden_file(t) ==
    IF cfg_unix
    THEN starts_with(unwrap_or_default(to_str(unwrap_or_default(file_name(t)))), <<".">>)
    ELSE FALSE

(***************************************************************************)
(* The state machines.  No operation here writes to the filesystem, so the  *)
(* filesystem, like every other input, is drawn by Init.                    *)
(***************************************************************************)
NoCall == [called |-> FALSE]
Call(arg, res) == [called |-> TRUE, arg |-> arg, res |-> res]
NoOutput == [op |-> "none"]
NoEntry == PathEntry(<<>>, "other", None)
EmptyFs == [n \in Names |-> [kind |-> "none", target |-> <<>>]]
FileTypes == {"file", "dir", "other"}

\* ---- PathEntry construction, comparison and display ----------------------
\* The spellings PathEntry::try_from is called with: each name absolute, and
\* one name relative, with a trailing "/", through "." and through "..".
Spellings ==
    {<<"/">> \o n : n \in Names}
    \cup {<<>>, <<"a">>, <<"/", "a", "/">>, <<"/", "a", "/", ".">>,
          <<"/", "b", "/", ".", ".", "/", "a">>}

Init ==
    /\ fs \in FSStates
    /\ cfg_unix = TRUE
    /\ prev = NoCall
    /\ cur = NoCall
    /\ entry = NoEntry
    /\ mode = Directory
    /\ path = <<>>
    /\ typed = <<>>
    /\ answers = <<>>
    /\ out = NoOutput

\* PathEntry::try_from(value)
TryFrom(value) ==
    /\ prev' = cur
    /\ cur' = Call(value, try_from(fs, value))
    /\ out' = [op |-> "try_from"]
    /\ UNCHANGED <<fs, cfg_unix, entry, mode, path, typed, answers>>

\* format!("{}", entry) for the entry built last
Display ==
    /\ cur.called
    /\ cur.res.ok
    /\ out' = [op |-> "fmt", text |-> fmt(cur.res.val)]
    /\ UNCHANGED <<fs, cfg_unix, prev, cur, entry, mode, path, typed, answers>>

\* a == b and hash(a) == hash(b) for the two entries built last
Compare ==
    /\ prev.called
    /\ cur.called
    /\ prev.res.ok
    /\ cur.res.ok
    /\ out' = [op |-> "eq",
               eq |-> eq(prev.res.val, cur.res.val),
               same_hash |-> hash(prev.res.val) = hash(cur.res.val)]
    /\ UNCHANGED <<fs, cfg_unix, prev, cur, entry, mode, path, typed, answers>>

Next ==
    \/ \E value \in Spellings : TryFrom(value)
    \/ Display
    \/ Compare

Spec == Init /\ [][Next]_vars

\* ---- is_selectable with a File or Directory mode -------------------------
SelChars == {"a", "A", ".", "/", "U+00C9", "0xFF"}
ExtChars == {"a", "A", "U+00C9", "U+00E9", "U+FFFD"}

SelEntries ==
    {PathEntry(p, k, None) : p \in StringsOver(SelChars, MaxSelPathLen), k \in FileTypes}

PlainModes ==
    {Directory, File(None)} \cup {File(Some(e)) : e \in StringsOver(ExtChars, MaxExtLen)}

InitSelect ==
    /\ fs = EmptyFs
    /\ cfg_unix = TRUE
    /\ prev = NoCall
    /\ cur = NoCall
    /\ entry \in SelEntries
    /\ mode \in PlainModes
    /\ path = <<>>
    /\ typed = <<>>
    /\ answers = <<>>
    /\ out = NoOutput

\* entry.is_selectable(&selection_mode)
IsSelectable ==
    /\ out' = [op |-> "is_selectable", result |-> is_selectable(entry, mode)]
    /\ UNCHANGED <<fs, cfg_unix, prev, cur, entry, mode, path, typed, answers>>

NextSelect == IsSelectable

SpecSelect == InitSelect /\ [][NextSelect]_vars

\* ---- is_selectable with a Multiple mode ----------------------------------
MultiEntries ==
    {PathEntry(p, k, None) :
        p \in {<<"/", "a">>, <<"/", "a", ".", "a">>, <<"/", "a", ".", "A">>,
               <<"/", "a", ".", "U+00C9">>},
        k \in FileTypes}

ListsOver(S) == UNION {[1..k -> S] : k \in 0..MaxModes}

\* Multiple modes over the plain modes, and Multiple modes whose members are
\* themselves Multiple modes.
FlatMultiples ==
    {Multiple(l) : l \in ListsOver({Directory, File(None), File(Some(<<"a">>))})}
InnerMultiples == {Multiple(l) : l \in ListsOver({Directory, File(None)})}
NestedMultiples ==
    {Multiple(l) : l \in ListsOver({Directory, File(None)} \cup InnerMultiples)}
MultipleModes == FlatMultiples \cup NestedMultiples

InitMulti ==
    /\ fs = EmptyFs
    /\ cfg_unix = TRUE
    /\ prev = NoCall
    /\ cur = NoCall
    /\ entry \in MultiEntries
    /\ mode \in MultipleModes
    /\ path = <<>>
    /\ typed = <<>>
    /\ answers = <<>>
    /\ out = NoOutput

NextMulti == IsSelectable

SpecMulti == InitMulti /\ [][NextMulti]_vars

\* ---- the default filter and the hidden-file test ------------------------
PathChars == {"a", ".", "/", "U+00C9", "0xFF"}
TextChars == {"a", "A", "U+00E9", "U+FFFD"}

InitText ==
    /\ fs = EmptyFs
    /\ cfg_unix \in BOOLEAN
    /\ prev = NoCall
    /\ cur = NoCall
    /\ entry = NoEntry
    /\ mode = Directory
    /\ path \in StringsOver(PathChars, MaxPathLen)
    /\ typed \in StringsOver(TextChars, MaxTextLen)
    /\ answers = <<>>
    /\ out = NoOutput

\* DEFAULT_FILTER(typed, &path, _, _): the text typed so far against the path
Filter ==
    /\ out' = [op |-> "filter", result |-> DEFAULT_FILTER(typed, path)]
    /\ UNCHANGED <<fs, cfg_unix, prev, cur, entry, mode, path, typed, answers>>

\* PathSelect::is_path_hidden_file(path)
Hidden ==
    /\ out' = [op |-> "hidden", result |-> is_path_hidden_file(path)]
    /\ UNCHANGED <<fs, cfg_unix, prev, cur, entry, mode, path, typed, answers>>

NextText ==
    \/ Filter
    \/ Hidden

SpecText == InitText /\ [][NextText]_vars

\* ---- the default formatter ------------------------------------------------
FmtEntries ==
    {PathEntry(<<"/", "b">>, "file", None),
     PathEntry(<<"/", "a">>, "dir", None),
     PathEntry(<<"/", "a">>, "file", Some(<<"/", "c">>)),
     PathEntry(<<"a", "0xFF">>, "file", None)}

InitFormat ==
    /\ fs = EmptyFs
    /\ cfg_unix = TRUE
    /\ prev = NoCall
    /\ cur = NoCall
    /\ entry = NoEntry
    /\ mode = Directory
    /\ path = <<>>
    /\ typed = <<>>
    /\ answers = <<>>
    /\ out = NoOutput

\* ans.push(ListOption::new(index, &value)), as the documentation's example does
Push(index, value) ==
    /\ Len(answers) < MaxAnswers
    /\ answers' = Append(answers, ListOption(index, value))
    /\ out' = NoOutput
    /\ UNCHANGED <<fs, cfg_unix, prev, cur, entry, mode, path, typed>>

\* DEFAULT_FORMATTER(ans)
Format ==
    /\ out' = [op |-> "format", text |-> DEFAULT_PATH_FORMATTER(answers)]
    /\ UNCHANGED <<fs, cfg_unix, prev, cur, entry, mode, path, typed, answers>>

NextFormat ==
    \/ \E index \in 0..MaxIndex, value \in FmtEntries : Push(index, value)
    \/ Format

SpecFormat == InitFormat /\ [][NextFormat]_vars

(***************************************************************************)
(* Vocabulary of the properties, stated without the operators above where   *)
(* the property is about them.  The text of a path is the text it is shown  *)
(* as (invalid UTF-8 shown as U+FFFD).                                      *)
(***************************************************************************)
RECURSIVE Strip(_)
\* a path text without its trailing separators and trailing "/." pieces
Strip(p) ==
    IF Len(p) >= 1 /\ p[Len(p)] = "/" THEN Strip(SubSeq(p, 1, Len(p) - 1))
    ELSE IF Len(p) >= 2 /\ p[Len(p) - 1] = "/" /\ p[Len(p)] = "."
    THEN Strip(SubSeq(p, 1, Len(p) - 2))
    ELSE p

\* the final segment of a path (its file or directory name), if it has one
FinalSegment(p) ==
    LET s == Strip(p)
        slashes == {i \in 1..Len(s) : s[i] = "/"}
        k == IF slashes = {} THEN 0 ELSE CHOOSE i \in slashes : \A j \in slashes : j <= i
        seg == SubSeq(s, k + 1, Len(s))
    IN  IF seg \in {<<>>, <<".">>, <<".", ".">>} THEN None ELSE Some(seg)

SegmentText(p) ==
    IF FinalSegment(p).some THEN to_string_lossy(FinalSegment(p).val) ELSE <<>>

IsSubstring(t, s) ==
    \E i \in 0..Len(s) : i + Len(t) <= Len(s) /\ SubSeq(s, i + 1, i + Len(t)) = t

AsciiFold(s) == [i \in 1..Len(s) |-> IF s[i] = "a" THEN "A" ELSE s[i]]

\* the final segment has an extension whose text equals ext, ASCII case ignored
ExtensionMatches(p, ext) ==
    /\ FinalSegment(p).some
    /\ LET seg == FinalSegment(p).val
       IN  \E i \in 2..Len(seg) :
               /\ seg[i] = "."
               /\ \A j \in (i + 1)..Len(seg) : seg[j] # "."
               /\ AsciiFold(to_string_lossy(SubSeq(seg, i + 1, Len(seg)))) = AsciiFold(ext)

IsSymbolicLink(f, p) ==
    LET r == Lookup(f, p, FALSE) IN r.ok /\ KindAt(f, r.loc) = "link"

ExistsNotLink(f, p) ==
    LET r == Lookup(f, p, FALSE) IN r.ok /\ KindAt(f, r.loc) # "link"

Resolves(f, p) == Lookup(f, p, TRUE).ok

ChainEndsAt(f, l, x) ==
    /\ Resolves(f, l)
    /\ Resolves(f, x)
    /\ Lookup(f, l, TRUE).loc = Lookup(f, x, TRUE).loc

\* p is absolute, names what it names without ".", ".." or a symbolic link
IsCanonical(f, p) ==
    /\ has_root(p)
    /\ \A i \in 2..Len(components(p)) : components(p)[i].tag = "Normal"
    /\ ExistsNotLink(f, p)

\* x is spelled with the components of its canonical path
SpelledCanonically(f, x) ==
    \E c \in {<<"/">>} \cup {<<"/">> \o n : n \in Names} :
        /\ IsCanonical(f, c)
        /\ ChainEndsAt(f, c, x)
        /\ components(x) = components(c)

LinkAndTarget ==
    /\ prev.called
    /\ cur.called
    /\ IsSymbolicLink(fs, prev.arg)
    /\ ExistsNotLink(fs, cur.arg)
    /\ ChainEndsAt(fs, prev.arg, cur.arg)

LinkAndTargetEqual ==
    /\ prev.res.ok
    /\ cur.res.ok
    /\ eq(prev.res.val, cur.res.val)
    /\ (out.op = "eq" => out.eq)
    /\ fmt(prev.res.val) # fmt(cur.res.val)

(***************************************************************************)
(* The properties.                                                          *)
(***************************************************************************)

\* C1: two entries are equal iff their paths are equal, and entries with
\* equal paths hash identically, whatever their file_type and symlink_path_opt.
C1_EqualityAndHashByPathOnly ==
    out.op = "eq" =>
        /\ out.eq <=> path_eq(prev.res.val.path, cur.res.val.path)
        /\ path_eq(prev.res.val.path, cur.res.val.path) => out.same_hash

\* C2 (as stated): for a symbolic link L whose chain ends at X, and X existing
\* and not itself a link, try_from(L) and try_from(X) both succeed, are equal
\* and display differently, however X is spelled.
C2_LinkEqualsTargetHoweverSpelled == LinkAndTarget => LinkAndTargetEqual

\* C2 (amended): the same, provided X is spelled with the components of its
\* canonical absolute path.
C2_LinkEqualsCanonicalTarget ==
    (LinkAndTarget /\ SpelledCanonically(fs, cur.arg)) => LinkAndTargetEqual

C2_Witness ==
    /\ LinkAndTarget
    /\ SpelledCanonically(fs, cur.arg)
    /\ Len(prev.arg) = 2
    /\ IsSymbolicLink(fs, fs[Tail(prev.arg)].target)
    /\ out.op = "eq"
    /\ out.eq

\* C3: try_from fails, and returns no entry, whenever the lookup of the path
\* (through its link chain) fails; every outcome is a fully populated entry
\* or an error.
C3_FailsWithoutEntry ==
    cur.called =>
        /\ ~Resolves(fs, cur.arg) => ~cur.res.ok
        /\ cur.res.ok =>
               /\ DOMAIN cur.res = {"ok", "val"}
               /\ cur.res.val.file_type \in FileTypes
               /\ cur.res.val.path # <<>>
               /\ Resolves(fs, cur.res.val.path)
        /\ ~cur.res.ok =>
               /\ DOMAIN cur.res = {"ok", "err"}
               /\ cur.res.err \in {"NotFound", "PermissionDenied", "FilesystemLoop",
                                   "NotADirectory"}

C3_Witness ==
    /\ prev.called
    /\ cur.called
    /\ IsSymbolicLink(fs, prev.arg)
    /\ IsSymbolicLink(fs, cur.arg)
    /\ ~prev.res.ok
    /\ ~cur.res.ok
    /\ prev.res.err = "NotFound"
    /\ cur.res.err = "FilesystemLoop"

\* C4: on success, a symbolic link gives symlink_path_opt = Some(path) and the
\* canonical resolved target as path; anything else gives path unchanged and
\* None; file_type is the kind of the final target, never that of the link.
C4_FieldsOfEntry ==
    (cur.called /\ cur.res.ok) =>
        LET e == cur.res.val
        IN  /\ IsSymbolicLink(fs, cur.arg) =>
                   /\ e.symlink_path_opt = Some(cur.arg)
                   /\ IsCanonical(fs, e.path)
                   /\ ChainEndsAt(fs, cur.arg, e.path)
            /\ ~IsSymbolicLink(fs, cur.arg) =>
                   /\ e.symlink_path_opt = None
                   /\ e.path = cur.arg
            /\ e.file_type = KindAt(fs, Lookup(fs, cur.arg, TRUE).loc)
            /\ e.file_type \in FileTypes

C4_Witness ==
    /\ cur.called
    /\ cur.res.ok
    /\ IsSymbolicLink(fs, cur.arg)
    /\ Len(cur.arg) = 2
    /\ IsSymbolicLink(fs, fs[Tail(cur.arg)].target)
    /\ cur.res.val.file_type = "dir"
    /\ cur.res.val.path # cur.arg

\* C5: is_selectable with Multiple(modes) is true iff it is true for at least
\* one member, at any nesting; so Multiple([]) is false, the order of the
\* members does not matter, and Multiple([Directory, File(None)]) is true iff
\* the entry is a directory or a regular file.
C5_MultipleIsAny ==
    (out.op = "is_selectable" /\ mode.tag = "Multiple") =>
        LET modes == mode.modes
            reversed == [i \in 1..Len(modes) |-> modes[Len(modes) + 1 - i]]
        IN  /\ out.result <=> \E i \in 1..Len(modes) : is_selectable(entry, modes[i])
            /\ modes = <<>> => ~out.result
            /\ out.result <=> is_selectable(entry, Multiple(reversed))
            /\ modes = <<Directory, File(None)>> =>
                   (out.result <=> entry.file_type \in {"dir", "file"})

C5_Witness ==
    /\ out.op = "is_selectable"
    /\ mode.tag = "Multiple"
    /\ Len(mode.modes) = 2
    /\ mode.modes[1].tag = "Directory"
    /\ mode.modes[2].tag = "Multiple"
    /\ entry.file_type = "file"
    /\ out.result

\* C6: with a mode that is not Multiple, is_selectable is true exactly when
\* the mode is Directory and the entry a directory, or the mode is File(None)
\* and the entry a regular file, or the mode is File(Some(ext)) and the entry
\* a regular file whose extension equals ext, ASCII case ignored.
C6_PlainModes ==
    (out.op = "is_selectable" /\ mode.tag # "Multiple") =>
        (out.result <=>
            \/ mode.tag = "Directory" /\ entry.file_type = "dir"
            \/ /\ mode.tag = "File"
               /\ entry.file_type = "file"
               /\ mode.ext.some => ExtensionMatches(entry.path, mode.ext.val))

C6_Witness ==
    /\ out.op = "is_selectable"
    /\ mode = File(Some(<<"a">>))
    /\ entry.file_type = "file"
    /\ entry.path = <<"a", ".", "A">>
    /\ out.result

\* C7: DEFAULT_FILTER is true iff the lower-cased final segment of the path
\* contains the lower-cased typed text; parent segments never contribute and
\* a path without a final segment counts as an empty segment.
C7_FilterOnFinalSegment ==
    out.op = "filter" =>
        (out.result <=>
            IsSubstring(to_lowercase(typed), to_lowercase(SegmentText(path))))

C7_Witness ==
    /\ out.op = "filter"
    /\ FinalSegment(path).some
    /\ typed # <<>>
    /\ IsSubstring(to_lowercase(typed), to_lowercase(to_string_lossy(path)))
    /\ ~out.result

\* C8: the default formatter returns the plain path text of each selected
\* entry, joined with ", " in the order of the list; the empty list gives the
\* empty text and a single entry its path text alone.
C8_FormatterJoinsInOrder ==
    out.op = "format" =>
        LET text(i) == to_string_lossy(answers[i].value.path)
            RECURSIVE upto(_)
            upto(n) == IF n = 0 THEN <<>>
                       ELSE IF n = 1 THEN text(1)
                       ELSE upto(n - 1) \o <<",", " ">> \o text(n)
        IN  /\ out.text = upto(Len(answers))
            /\ answers = <<>> => out.text = <<>>
            /\ Len(answers) = 1 => out.text = text(1)

C8_Witness ==
    /\ out.op = "format"
    /\ Len(answers) = 3
    /\ answers[1].value.path = <<"/", "b">>
    /\ answers[2].value.symlink_path_opt.some
    /\ answers[3].value.file_type = "dir"
    /\ answers[1].index > answers[2].index

\* C9: Display shows "<original> -> <resolved>" for an entry with
\* symlink_path_opt (a directory too), else "(dir) <resolved>" for a
\* directory, else "<resolved>".
C9_DisplayByCase ==
    out.op = "fmt" =>
        LET e == cur.res.val
            resolved == to_string_lossy(e.path)
        IN  /\ e.symlink_path_opt.some =>
                   out.text = to_string_lossy(e.symlink_path_opt.val)
                              \o <<" ", "-", ">", " ">> \o resolved
            /\ (~e.symlink_path_opt.some /\ e.file_type = "dir") =>
                   out.text = <<"(", "d", "i", "r", ")", " ">> \o resolved
            /\ (~e.symlink_path_opt.some /\ e.file_type # "dir") =>
                   out.text = resolved

C9_Witness ==
    /\ out.op = "fmt"
    /\ cur.res.val.symlink_path_opt.some
    /\ cur.res.val.file_type = "dir"

\* C10: is_path_hidden_file is true on a POSIX-like platform iff the final
\* segment of the path begins with ".", and false on any other platform.
C10_HiddenIffDotSegment ==
    out.op = "hidden" =>
        (out.result <=>
            /\ cfg_unix
            /\ FinalSegment(path).some
            /\ FinalSegment(path).val[1] = ".")

=============================================================================
